---- MODULE Spec2Model ----
(***************************************************************************)
(* A model of the pinning-rooted mark-and-sweep heap of src/src/heap.rs:   *)
(* one HeapStorage page of PairStorage cells, the session (Heap) with its  *)
(* pin table, and the PinnedRef handles a user of the session holds.       *)
(***************************************************************************)
EXTENDS Integers, Sequences, FiniteSets, TLC

\* ------------------------------------------------------------------------
\* Bounds of the model
\* ------------------------------------------------------------------------

\* Number of cells of the page (heap.rs:19 sets 125; the model scales it down).
HEAP_SIZE == 2

\* Largest number of PinnedRef handles to one cell the user creates.
MaxPins == 2

\* Int payloads stored in fields are 1..MaxInt.
MaxInt == 1

\* The counting loops of the evaluator run 0 .. MaxIter iterations.
MaxIter == 2

\* Lambdas have 1 .. MaxParams parameters and get 0 .. MaxParams + 1 arguments.
MaxParams == 2

\* Numbers bound to a variable are 1 .. MaxVal.
MaxVal == 2

\* Number of forms an evaluator session reads.
MaxSteps == 3

\* Frames of Mark::mark the stack holds during marking.
MaxDepth == 4

\* Width of usize, in bits: addresses are 0 .. 2^AddrBits - 1.
AddrBits == 6

\* HEAP_STORAGE_ALIGN is 2^k for a k in 1 .. MaxAlignBits (heap.rs:23 sets
\* 0x1000).
MaxAlignBits == 4

\* Address of objects[0] and the stride of the objects array, in model units.
ObjectsBase == 4

SizeOfT == 2

\* ptr::null_mut()
NULL == 0

\* ------------------------------------------------------------------------
\* Values and cells
\* ------------------------------------------------------------------------

Index == 0 .. (HEAP_SIZE - 1)

\* &self.objects[i]
address(i) == ObjectsBase + i * SizeOfT

Addr == { address(i) : i \in Index }

\* ValueStorage: the in-heap form of Value (Str is untraced like Int and is
\* not distinguished from it).
Null == [tag |-> "Null", val |-> 0]

Int_(n) == [tag |-> "Int", val |-> n]

PairPtr(p) == [tag |-> "Pair", val |-> p]

\* What is not a ValueStorage: a freelist link overlaying the first word of a
\* free cell, and memory that holds no value (uninitialized or destroyed).
Link(p) == [tag |-> "Link", val |-> p]

Garbage == [tag |-> "Garbage", val |-> 0]

ValueStorage == {Null} \cup { Int_(n) : n \in 1 .. MaxInt } \cup { PairPtr(p) : p \in Addr }

IsValue(v) == v.tag \in {"Null", "Int", "Pair"}

\* PairStorage { head, tail }
PairStorage(h, t) == [head |-> h, tail |-> t]

\* impl Default for PairStorage
PairStorage_default == PairStorage(Null, Null)

\* mem::uninitialized()
Uninitialized == PairStorage(Garbage, Garbage)

\* ------------------------------------------------------------------------
\* HeapStorage
\* ------------------------------------------------------------------------

\* HeapStorage::allocation_index: the two range assertions and the round trip.
allocation_index_ok(ptr) ==
    /\ ptr >= address(0)
    /\ ptr < address(0) + HEAP_SIZE * SizeOfT
    /\ address((ptr - address(0)) \div SizeOfT) = ptr

allocation_index(ptr) == (ptr - address(0)) \div SizeOfT

\* mem::size_of::<HeapStorage<T>>(): the header fields, then the objects array.
PageSize == ObjectsBase + HEAP_SIZE * SizeOfT

\* x & y on usize, bit by bit over the n low bits.
RECURSIVE BitAnd(_, _, _)
BitAnd(x, y, n) ==
    IF n = 0 THEN 0
    ELSE (x % 2) * (y % 2) + 2 * BitAnd(x \div 2, y \div 2, n - 1)

\* !x on usize
BitNot(x) == (2 ^ AddrBits - 1) - x

\* The two assertions of HeapStorage::new on the address of the box and the
\* size of the page.
HeapStorage_new_ok(base, align) ==
    /\ BitAnd(base, align - 1, AddrBits) = 0
    /\ PageSize <= align

\* &storage.objects[i] of the page at base
cell_address(base, i) == base + address(i)

\* A faulty find_header: the mask keeps the low bits.
find_header_low_bits(ptr, align) == BitAnd(ptr, align - 1, AddrBits)

\* Heap::find_header
find_header(ptr, align) == BitAnd(ptr, BitNot(align - 1), AddrBits)

\* HeapStorage::add_to_free_list
add_to_free_list(S, p) ==
    [S EXCEPT !.objects[allocation_index(p)].head = Link(S.freelist),
              !.freelist = p]

RECURSIVE new_loop(_, _)
new_loop(S, i) ==
    IF i >= HEAP_SIZE THEN S
    ELSE new_loop(add_to_free_list(S, address(i)), i + 1)

\* HeapStorage::new
HeapStorage_new ==
    new_loop([is_some |-> TRUE,
              mark_bits |-> [i \in Index |-> FALSE],
              allocated_bits |-> [i \in Index |-> FALSE],
              freelist |-> NULL,
              objects |-> [i \in Index |-> Uninitialized]], 0)

\* Option::None for Heap.storage
None == [is_some |-> FALSE]

\* HeapStorage::get_mark_bit
get_mark_bit(S, ptr) == S.mark_bits[allocation_index(ptr)]

\* A faulty set_mark_bit: the bit is left as it was.
set_mark_bit_noop(S, ptr) == S

\* HeapStorage::set_mark_bit
set_mark_bit(S, ptr) == [S EXCEPT !.mark_bits[allocation_index(ptr)] = TRUE]

\* A faulty HeapStorage_try_alloc: the allocated bit of the popped cell is not
\* set.
HeapStorage_try_alloc_no_bit(S) ==
    LET p == S.freelist IN
    IF p = NULL THEN [S |-> S, ret |-> NULL, ok |-> TRUE]
    ELSE LET index == allocation_index(p)
             listp == S.objects[index].head
         IN [S |-> [S EXCEPT !.freelist = listp.val],
             ret |-> p,
             ok |-> ~S.allocated_bits[index]]

\* A faulty HeapStorage_try_alloc: the freelist head is returned but not
\* unlinked, and the assertion is gone.
HeapStorage_try_alloc_no_pop(S) ==
    LET p == S.freelist IN
    IF p = NULL THEN [S |-> S, ret |-> NULL, ok |-> TRUE]
    ELSE [S |-> [S EXCEPT !.allocated_bits[allocation_index(p)] = TRUE],
          ret |-> p,
          ok |-> TRUE]

\* HeapStorage::try_alloc: [S, ret, ok]; ok is the assertion that the popped
\* cell is not already allocated.
HeapStorage_try_alloc(S) ==
    LET p == S.freelist IN
    IF p = NULL THEN [S |-> S, ret |-> NULL, ok |-> TRUE]
    ELSE LET index == allocation_index(p)
             listp == S.objects[index].head
         IN [S |-> [S EXCEPT !.freelist = listp.val,
                             !.allocated_bits[index] = TRUE],
             ret |-> p,
             ok |-> ~S.allocated_bits[index]]

\* Marking works on M = [S |-> the page, ub |-> a non-value was read as a value].
RECURSIVE PairStorage_mark(_, _)

\* Mark for ValueStorage (generated by gc_inline_enum!): only the Pair variant
\* holds a pointer. Reading a freelist link or destroyed memory as a value is
\* undefined behaviour and is recorded in ub.
ValueStorage_mark(M, v) ==
    IF v.tag = "Pair" THEN PairStorage_mark(M, v.val)
    ELSE IF IsValue(v) THEN M
    ELSE [M EXCEPT !.ub = TRUE]

\* Mark for PairStorage (generated by gc_ref_type!): the mark bit is tested at
\* entry, set, and then each field is marked.
PairStorage_mark(M, ptr) ==
    IF get_mark_bit(M.S, ptr) THEN M
    ELSE LET M1 == [M EXCEPT !.S = set_mark_bit(M.S, ptr)]
             cell == M.S.objects[allocation_index(ptr)]
         IN ValueStorage_mark(ValueStorage_mark(M1, cell.head), cell.tail)

\* mark_entry_point::<PairStorage>
mark_entry_point(M, addr) == PairStorage_mark(M, addr)

\* Heap::mark_any
mark_any(M, ptr) == mark_entry_point(M, ptr)

\* A faulty mark_pins: the loop stops after the first pinned address.
mark_pins_first_only(M, roots) ==
    IF roots = {} THEN M
    ELSE mark_any(M, CHOOSE q \in roots : \A r \in roots : q <= r)

\* The loop over self.pins in Heap::gc. The HashMap's iteration order is
\* arbitrary; the set of cells marked does not depend on it.
RECURSIVE mark_pins(_, _)
mark_pins(M, roots) ==
    IF roots = {} THEN M
    ELSE LET p == CHOOSE q \in roots : \A r \in roots : q <= r
         IN mark_pins(mark_any(M, p), roots \ {p})

\* The heap as the collector sees it:
\*   W = [storage, undropped, ub]
\* undropped[i] is the number of objects written to objects[i] (ptr::write)
\* whose destructor has not run yet (ptr::read).

\* A faulty sweep_loop: the allocated bit of a swept cell is left set.
RECURSIVE sweep_loop_keep_bit(_, _)
sweep_loop_keep_bit(W, i) ==
    IF i >= HEAP_SIZE THEN W
    ELSE IF W.storage.allocated_bits[i] /\ ~W.storage.mark_bits[i]
         THEN LET read == [W EXCEPT !.undropped[i] = @ - 1,
                                    !.storage.objects[i] = Uninitialized]
              IN sweep_loop_keep_bit(
                     [read EXCEPT !.storage = add_to_free_list(@, address(i))], i + 1)
         ELSE sweep_loop_keep_bit(W, i + 1)

\* A faulty sweep_loop: the loop bound is one short, 0 .. HEAP_SIZE - 1.
RECURSIVE sweep_loop_short(_, _)
sweep_loop_short(W, i) ==
    IF i >= HEAP_SIZE - 1 THEN W
    ELSE IF W.storage.allocated_bits[i] /\ ~W.storage.mark_bits[i]
         THEN LET read == [W EXCEPT !.undropped[i] = @ - 1,
                                    !.storage.objects[i] = Uninitialized,
                                    !.storage.allocated_bits[i] = FALSE]
              IN sweep_loop_short([read EXCEPT !.storage = add_to_free_list(@, address(i))],
                                  i + 1)
         ELSE sweep_loop_short(W, i + 1)

\* A faulty sweep_loop: ptr::read runs for every allocated cell, marked or
\* not.
RECURSIVE sweep_loop_read_all(_, _)
sweep_loop_read_all(W, i) ==
    IF i >= HEAP_SIZE THEN W
    ELSE IF W.storage.allocated_bits[i] /\ ~W.storage.mark_bits[i]
         THEN LET read == [W EXCEPT !.undropped[i] = @ - 1,
                                    !.storage.objects[i] = Uninitialized,
                                    !.storage.allocated_bits[i] = FALSE]
              IN sweep_loop_read_all(
                     [read EXCEPT !.storage = add_to_free_list(@, address(i))], i + 1)
         ELSE IF W.storage.allocated_bits[i]
         THEN sweep_loop_read_all([W EXCEPT !.undropped[i] = @ - 1,
                                            !.storage.objects[i] = Uninitialized],
                                  i + 1)
         ELSE sweep_loop_read_all(W, i + 1)

\* HeapStorage::sweep, from index i on.
RECURSIVE sweep_loop(_, _)
sweep_loop(W, i) ==
    IF i >= HEAP_SIZE THEN W
    ELSE IF W.storage.allocated_bits[i] /\ ~W.storage.mark_bits[i]
         THEN LET read == [W EXCEPT !.undropped[i] = @ - 1,
                                    !.storage.objects[i] = Uninitialized,
                                    !.storage.allocated_bits[i] = FALSE]
              IN sweep_loop([read EXCEPT !.storage = add_to_free_list(@, address(i))],
                            i + 1)
         ELSE sweep_loop(W, i + 1)

\* A faulty sweep: the loop starts at index 1.
sweep_from_one(W) == sweep_loop(W, 1)

sweep(W) == sweep_loop(W, 0)

\* A faulty gc: the mark phase is left out.
gc_without_mark(W, pinned) ==
    IF ~W.storage.is_some THEN W
    ELSE sweep([W EXCEPT !.storage.mark_bits = [i \in Index |-> FALSE]])

\* A faulty gc: the mark bits of the previous cycle are not cleared.
gc_without_clear(W, pinned) ==
    IF ~W.storage.is_some THEN W
    ELSE LET M == mark_pins([S |-> W.storage, ub |-> W.ub], DOMAIN pinned)
         IN sweep([W EXCEPT !.storage = M.S, !.ub = M.ub])

\* Heap::gc
gc(W, pinned) ==
    IF ~W.storage.is_some THEN W
    ELSE LET cleared == [W.storage EXCEPT !.mark_bits = [i \in Index |-> FALSE]]
             M == mark_pins([S |-> cleared, ub |-> W.ub], DOMAIN pinned)
         IN sweep([W EXCEPT !.storage = M.S, !.ub = M.ub])

\* Drop for HeapStorage: every cell is overwritten with T::default(), without
\* running the destructor of what it held; the defaults are then dropped with
\* the array, so the count of undestroyed objects of a cell does not change.
HeapStorage_drop(S) ==
    IF S.is_some THEN [S EXCEPT !.objects = [i \in Index |-> PairStorage_default]]
    ELSE S

\* ------------------------------------------------------------------------
\* Heap: the pin table
\* ------------------------------------------------------------------------

NoPins == [q \in {} |-> 0]

\* A faulty pin: the entry is set to one instead of being incremented.
pin_set_one(pinned, p) ==
    LET entry == IF p \in DOMAIN pinned THEN pinned ELSE pinned @@ (p :> 0)
    IN [entry EXCEPT ![p] = 1]

\* Heap::pin
pin(pinned, p) ==
    LET entry == IF p \in DOMAIN pinned THEN pinned ELSE pinned @@ (p :> 0)
    IN [entry EXCEPT ![p] = @ + 1]

\* The assertion of Heap::unpin.
unpin_ok(pinned, p) == p \in DOMAIN pinned /\ pinned[p] # 0

\* A faulty unpin: the entry is not removed when its count reaches zero.
unpin_keep_entry(pinned, p) ==
    LET entry == IF p \in DOMAIN pinned THEN pinned ELSE pinned @@ (p :> 0)
    IN IF entry[p] = 0 THEN entry
       ELSE [entry EXCEPT ![p] = @ - 1]

\* Heap::unpin (when the assertion fails the inserted zero entry stays).
unpin(pinned, p) ==
    LET entry == IF p \in DOMAIN pinned THEN pinned ELSE pinned @@ (p :> 0)
    IN IF entry[p] = 0 THEN entry
       ELSE IF entry[p] - 1 = 0
            THEN [q \in (DOMAIN entry) \ {p} |-> entry[q]]
            ELSE [entry EXCEPT ![p] = @ - 1]

\* Heap::get_storage
get_storage(W) ==
    IF W.storage.is_some THEN W ELSE [W EXCEPT !.storage = HeapStorage_new]

\* HeapInline::to_heap for a Value (generated): a Pair handle is consumed,
\* which unpins its cell.
to_heap_unpin(pinned, v) ==
    IF v.tag = "Pair" THEN unpin(pinned, v.val) ELSE pinned

to_heap_ok(pinned, v) == v.tag = "Pair" => unpin_ok(pinned, v.val)

\* Number of handles to cell q that a pair of field values carries.
RefsIn(h, t, q) ==
    (IF h = PairPtr(q) THEN 1 ELSE 0) + (IF t = PairPtr(q) THEN 1 ELSE 0)

\* What one GC cycle started from (taken once the mark bits are cleared) and
\* what it left.
GcLog(Wb, pinned, Wa) ==
    [ran |-> TRUE,
     before |-> [storage |-> [Wb.storage EXCEPT !.mark_bits = [i \in Index |-> FALSE]],
                 undropped |-> Wb.undropped, pins |-> pinned],
     after |-> [storage |-> Wa.storage, undropped |-> Wa.undropped]]

NoGc == [ran |-> FALSE, before |-> None, after |-> None]

\* A faulty Heap_try_alloc: after the GC cycle the allocation is not retried.
Heap_try_alloc_no_retry(W, pinned, h, t) ==
    LET W0 == get_storage(W)
        a1 == HeapStorage_try_alloc(W0.storage)
        retry == a1.ret = NULL
        W1 == IF retry THEN gc(W0, pinned) ELSE [W0 EXCEPT !.storage = a1.S]
        p == a1.ret
        pins2 == to_heap_unpin(to_heap_unpin(pinned, h), t)
    IN IF p = NULL
       THEN [W |-> W1, pins |-> pins2, ret |-> NULL,
             gc |-> IF retry THEN GcLog(W0, pinned, W1) ELSE NoGc, ok |-> a1.ok]
       ELSE [W |-> [W1 EXCEPT !.storage.objects[allocation_index(p)] = PairStorage(h, t),
                              !.undropped[allocation_index(p)] = @ + 1],
             pins |-> pin(pins2, p), ret |-> p,
             gc |-> NoGc, ok |-> a1.ok]

\* A faulty Heap_try_alloc: the fields are converted to their heap form, which
\* unpins the cells they refer to, before the GC cycle runs.
Heap_try_alloc_unpin_first(W, pinned, h, t) ==
    LET W0 == get_storage(W)
        a1 == HeapStorage_try_alloc(W0.storage)
        retry == a1.ret = NULL
        ok1 == to_heap_ok(pinned, h)
        pins1 == to_heap_unpin(pinned, h)
        ok2 == to_heap_ok(pins1, t)
        pins2 == to_heap_unpin(pins1, t)
        W1 == IF retry THEN gc(W0, pins2) ELSE W0
        a2 == IF retry THEN HeapStorage_try_alloc(W1.storage) ELSE a1
        p == a2.ret
        W2 == [W1 EXCEPT !.storage = a2.S]
    IN IF p = NULL
       THEN [W |-> W2, pins |-> pins2, ret |-> NULL,
             gc |-> IF retry THEN GcLog(W0, pins2, W1) ELSE NoGc, ok |-> a2.ok /\ ok1 /\ ok2]
       ELSE [W |-> [W2 EXCEPT !.storage.objects[allocation_index(p)] = PairStorage(h, t),
                              !.undropped[allocation_index(p)] = @ + 1],
             pins |-> pin(pins2, p), ret |-> p,
             gc |-> IF retry THEN GcLog(W0, pins2, W1) ELSE NoGc, ok |-> a2.ok /\ ok1 /\ ok2]

\* A faulty Heap_try_alloc: a GC cycle runs before the freelist is tried.
Heap_try_alloc_gc_first(W, pinned, h, t) ==
    LET W0 == get_storage(W)
        W1 == gc(W0, pinned)
        a2 == HeapStorage_try_alloc(W1.storage)
        p == a2.ret
        ok1 == to_heap_ok(pinned, h)
        pins1 == to_heap_unpin(pinned, h)
        ok2 == to_heap_ok(pins1, t)
        pins2 == to_heap_unpin(pins1, t)
        W2 == [W1 EXCEPT !.storage = a2.S]
    IN IF p = NULL
       THEN [W |-> W2, pins |-> pins2, ret |-> NULL,
             gc |-> GcLog(W0, pinned, W1), ok |-> a2.ok /\ ok1 /\ ok2]
       ELSE [W |-> [W2 EXCEPT !.storage.objects[allocation_index(p)] = PairStorage(h, t),
                              !.undropped[allocation_index(p)] = @ + 1],
             pins |-> pin(pins2, p), ret |-> p,
             gc |-> GcLog(W0, pinned, W1), ok |-> a2.ok /\ ok1 /\ ok2]

\* Heap::try_alloc: [W, pins, ret, gc, ok]. ret = NULL is None; gc is the log
\* of the GC cycle run, if any; ok is the conjunction of the assertions passed.
Heap_try_alloc(W, pinned, h, t) ==
    LET W0 == get_storage(W)
        a1 == HeapStorage_try_alloc(W0.storage)
        retry == a1.ret = NULL
        W1 == IF retry THEN gc(W0, pinned) ELSE W0
        a2 == IF retry THEN HeapStorage_try_alloc(W1.storage) ELSE a1
        p == a2.ret
        ok1 == to_heap_ok(pinned, h)
        pins1 == to_heap_unpin(pinned, h)
        ok2 == to_heap_ok(pins1, t)
        pins2 == to_heap_unpin(pins1, t)
        W2 == [W1 EXCEPT !.storage = a2.S]
    IN IF p = NULL
       THEN [W |-> W2, pins |-> pins2, ret |-> NULL,
             gc |-> IF retry THEN GcLog(W0, pinned, W1) ELSE NoGc, ok |-> a2.ok /\ ok1 /\ ok2]
       ELSE [W |-> [W2 EXCEPT !.storage.objects[allocation_index(p)] = PairStorage(h, t),
                              !.undropped[allocation_index(p)] = @ + 1],
             pins |-> pin(pins2, p), ret |-> p,
             gc |-> IF retry THEN GcLog(W0, pinned, W1) ELSE NoGc, ok |-> a2.ok /\ ok1 /\ ok2]

\* ------------------------------------------------------------------------
\* The Lisp evaluator (lisp/src/vm.rs): values and the session's pairs
\* ------------------------------------------------------------------------

\* enum Value: the variant, with its integer payload (val: the number, the
\* truth value as 0 or 1, the address of the pair) and its name payload (the
\* symbol's string, the builtin's identity). No program of the model builds a
\* Vector.
Nil == [tag |-> "Nil", val |-> 0, name |-> ""]
Bool(b) == [tag |-> "Bool", val |-> IF b THEN 1 ELSE 0, name |-> ""]
Value_Int(n) == [tag |-> "Int", val |-> n, name |-> ""]
Symbol(s) == [tag |-> "Symbol", val |-> 0, name |-> s]
Lambda(p) == [tag |-> "Lambda", val |-> p, name |-> ""]
Builtin(f) == [tag |-> "Builtin", val |-> 0, name |-> f]
Cons(p) == [tag |-> "Cons", val |-> p, name |-> ""]

\* The derived PartialEq of Value: same variant, same payload (a PairRef is
\* compared by address, a builtin by identity).
Value_eq(a, b) == a = b

\* Value::null
null(v) == v.tag = "Nil"

\* A faulty to_bool: the empty list counts as false too.
to_bool_nil_false(v) == ~(v.tag = "Nil" \/ (v.tag = "Bool" /\ v.val = 0))

\* Value::to_bool
to_bool(v) == ~(v.tag = "Bool" /\ v.val = 0)

\* The session as the evaluator sees it:
\*   hs = [cells     |-> the Pair cells allocated so far; a PairRef is an index,
\*         evaluated |-> the expressions eval was entered with, in order, each
\*                       with the depth of its activation,
\*         depth     |-> the eval/apply activations now on the host stack,
\*         max_depth |-> the largest depth reached]
Session(cells) == [cells |-> cells, evaluated |-> <<>>, depth |-> 0, max_depth |-> 0]

\* GcHeapSession::alloc(Pair { car, cdr }): [hs, ref]
hs_alloc(hs, a, d) ==
    [hs |-> [hs EXCEPT !.cells = Append(@, [car |-> a, cdr |-> d])],
     ref |-> Len(hs.cells) + 1]

\* The generated accessors of PairRef.
car(hs, p) == hs.cells[p].car

cdr(hs, p) == hs.cells[p].cdr

set_cdr(hs, p, v) == [hs EXCEPT !.cells[p].cdr = v]

\* Result<_, String>, and "Panic" for a panic of the host program.
Ok(hs, v, env) ==
    [res |-> "Ok", hs |-> hs, val |-> v, env |-> env, vals |-> <<>>, msg |-> ""]

Err(hs, msg) ==
    [res |-> "Err", hs |-> hs, val |-> Nil, env |-> Nil, vals |-> <<>>, msg |-> msg]

Panic(hs, msg) ==
    [res |-> "Panic", hs |-> hs, val |-> Nil, env |-> Nil, vals |-> <<>>, msg |-> msg]

UndefinedSymbol == "undefined symbol"

BadEnvironment == "internal error: bad environment structure"

\* ------------------------------------------------------------------------
\* Environment
\* ------------------------------------------------------------------------

\* Environment::push: [hs, env]
push(hs, env, key, value) ==
    LET pair == hs_alloc(hs, Symbol(key), value)
        link == hs_alloc(pair.hs, Cons(pair.ref), env)
    IN [hs |-> link.hs, env |-> Cons(link.ref)]

\* A faulty lookup: the search does not stop at the first match, so the
\* outermost binding of the name wins.
RECURSIVE lookup_outermost(_, _, _)
lookup_outermost(hs, env, name) ==
    IF env.tag = "Cons"
    THEN LET p == env.val
             c == car(hs, p)
         IN IF c.tag = "Cons"
            THEN LET outer == lookup_outermost(hs, cdr(hs, p), name)
                 IN IF outer.res = "Ok" \/ outer.res = "Panic" THEN outer
                    ELSE IF Value_eq(car(hs, c.val), Symbol(name))
                    THEN [res |-> "Ok", rib |-> c.val, msg |-> ""]
                    ELSE outer
            ELSE [res |-> "Panic", rib |-> 0, msg |-> BadEnvironment]
    ELSE IF null(env) THEN [res |-> "Err", rib |-> 0, msg |-> UndefinedSymbol]
    ELSE [res |-> "Panic", rib |-> 0, msg |-> BadEnvironment]

\* Environment::lookup: [res, rib, msg]
RECURSIVE lookup(_, _, _)
lookup(hs, env, name) ==
    IF env.tag = "Cons"
    THEN LET p == env.val
             c == car(hs, p)
         IN IF c.tag = "Cons"
            THEN IF Value_eq(car(hs, c.val), Symbol(name))
                 THEN [res |-> "Ok", rib |-> c.val, msg |-> ""]
                 ELSE lookup(hs, cdr(hs, p), name)
            ELSE [res |-> "Panic", rib |-> 0, msg |-> BadEnvironment]
    ELSE IF null(env) THEN [res |-> "Err", rib |-> 0, msg |-> UndefinedSymbol]
    ELSE [res |-> "Panic", rib |-> 0, msg |-> BadEnvironment]

\* Environment::get: [res, val, msg]
get(hs, env, name) ==
    LET l == lookup(hs, env, name)
    IN IF l.res = "Ok" THEN [res |-> "Ok", val |-> cdr(hs, l.rib), msg |-> ""]
       ELSE [res |-> l.res, val |-> Nil, msg |-> l.msg]

\* A faulty set: the value is written to the car of the rib.
set_writes_car(hs, env, name, value) ==
    LET l == lookup(hs, env, name)
    IN IF l.res = "Ok"
       THEN [res |-> "Ok", hs |-> [hs EXCEPT !.cells[l.rib].car = value], msg |-> ""]
       ELSE [res |-> l.res, hs |-> hs, msg |-> l.msg]

\* Environment::set: [res, hs, msg]
set(hs, env, name, value) ==
    LET l == lookup(hs, env, name)
    IN IF l.res = "Ok" THEN [res |-> "Ok", hs |-> set_cdr(hs, l.rib, value), msg |-> ""]
       ELSE [res |-> l.res, hs |-> hs, msg |-> l.msg]

\* parse_pair: [res, car, cdr, msg]
parse_pair(hs, v, msg) ==
    IF v.tag = "Cons"
    THEN [res |-> "Ok", car |-> car(hs, v.val), cdr |-> cdr(hs, v.val), msg |-> ""]
    ELSE [res |-> "Err", car |-> Nil, cdr |-> Nil, msg |-> msg]

\* ------------------------------------------------------------------------
\* eval and apply
\* ------------------------------------------------------------------------

Max(a, b) == IF a >= b THEN a ELSE b

\* An activation of eval or apply is pushed on the host stack ...
enter(hs) ==
    [hs EXCEPT !.depth = @ + 1, !.max_depth = Max(@, hs.depth + 1)]

\* ... and popped when it returns.
leave(r) == [r EXCEPT !.hs.depth = @ - 1]

\* The builtins the programs of the model call: sub, eq_question, and the
\* numeric equality the prelude provides.
builtin_call(hs, f, args) ==
    IF f = "-"
    THEN IF Len(args) = 2 /\ args[1].tag = "Int" /\ args[2].tag = "Int"
         THEN Ok(hs, Value_Int(args[1].val - args[2].val), Nil)
         ELSE Err(hs, "-: bad arguments")
    ELSE IF f = "=" \/ f = "eq?"
    THEN IF Len(args) = 2
         THEN Ok(hs, Bool(Value_eq(args[1], args[2])), Nil)
         ELSE Err(hs, "=: bad arguments")
    ELSE Err(hs, "unknown builtin")

RECURSIVE eval(_, _, _)

\* eval_each, with the callback's effect kept as the list of the values passed
\* to it (result vals).
RECURSIVE eval_each(_, _, _, _)
eval_each(hs, exprs, env, vals) ==
    IF exprs.tag = "Cons"
    THEN LET r == eval(hs, car(hs, exprs.val), env)
         IN IF r.res # "Ok" THEN r
            ELSE eval_each(r.hs, cdr(r.hs, exprs.val), r.env, Append(vals, r.val))
    ELSE IF exprs.tag = "Nil" THEN [Ok(hs, Nil, env) EXCEPT !.vals = vals]
    ELSE Err(hs, "improper list of expressions")

\* map_eval: the callback collects every value.
map_eval(hs, exprs, env) == eval_each(hs, exprs, env, <<>>)

\* eval_block_body: the callback keeps the last value; the environment the
\* body ends with is dropped.
eval_block_body(hs, exprs, env) ==
    LET r == eval_each(hs, exprs, env, <<>>)
    IN IF r.res # "Ok" THEN r
       ELSE Ok(r.hs, IF r.vals = <<>> THEN Nil ELSE r.vals[Len(r.vals)], Nil)

\* The parameter loop of apply and the check that follows it; i counts from 0
\* as in the source, args[i] is args[i + 1] here. Indexing the argument vector
\* past its end panics.
RECURSIVE bind_params(_, _, _, _, _)
bind_params(hs, params, env, args, i) ==
    IF params.tag = "Cons"
    THEN IF i > Len(args) THEN Err(hs, "apply: not enough arguments")
         ELSE LET s == car(hs, params.val)
              IN IF s.tag = "Symbol"
                 THEN IF i >= Len(args)
                      THEN Panic(hs, "index out of bounds")
                      ELSE LET pair == hs_alloc(hs, Symbol(s.name), args[i + 1])
                               link == hs_alloc(pair.hs, Cons(pair.ref), env)
                           IN bind_params(link.hs, cdr(link.hs, params.val),
                                          Cons(link.ref), args, i + 1)
                 ELSE Err(hs, "syntax error in lambda arguments")
    ELSE IF i < Len(args) THEN Err(hs, "apply: too many arguments")
    ELSE Ok(hs, Nil, env)

\* apply
apply(hs0, fval, args) ==
    leave(LET hs == enter(hs0)
          IN IF fval.tag = "Builtin" THEN builtin_call(hs, fval.name, args)
             ELSE IF fval.tag = "Lambda"
             THEN LET env == cdr(hs, fval.val)
                      code == parse_pair(hs, car(hs, fval.val), "syntax error in lambda")
                  IN IF code.res # "Ok" THEN Err(hs, code.msg)
                     ELSE LET b == bind_params(hs, code.car, env, args, 0)
                          IN IF b.res # "Ok" THEN b
                             ELSE eval_block_body(b.hs, code.cdr, b.env)
             ELSE Err(hs, "apply: not a function"))

\* eval, (lambda ...)
eval_lambda(hs, p, env) ==
    LET f == hs_alloc(hs, cdr(hs, p), env)
    IN Ok(f.hs, Lambda(f.ref), env)

\* eval, (quote datum)
eval_quote(hs, p, env) ==
    LET q == parse_pair(hs, cdr(hs, p), "(quote) with no arguments")
    IN IF q.res # "Ok" THEN Err(hs, q.msg)
       ELSE IF ~null(q.cdr) THEN Err(hs, "too many arguments to (quote)")
       ELSE Ok(hs, q.car, env)

\* eval, (if cond then else)
eval_if(hs, p, env) ==
    LET c == parse_pair(hs, cdr(hs, p), "(if) with no arguments")
        t == parse_pair(hs, c.cdr, "missing arguments after (if COND)")
        f == parse_pair(hs, t.cdr, "missing 'else' argument after (if COND X)")
    IN IF c.res # "Ok" THEN Err(hs, c.msg)
       ELSE IF t.res # "Ok" THEN Err(hs, t.msg)
       ELSE IF f.res # "Ok" THEN Err(hs, f.msg)
       ELSE IF ~null(f.cdr) THEN Err(hs, "too many arguments in (if) expression")
       ELSE LET r == eval(hs, c.car, env)
            IN IF r.res # "Ok" THEN r
               ELSE eval(r.hs, IF to_bool(r.val) THEN t.car ELSE f.car, r.env)

\* A faulty eval_begin: the environment the body ends with is returned.
eval_begin_body_env(hs, p, env) ==
    LET r == eval_each(hs, cdr(hs, p), env, <<>>)
    IN IF r.res # "Ok" THEN r
       ELSE Ok(r.hs, IF r.vals = <<>> THEN Nil ELSE r.vals[Len(r.vals)], r.env)

\* eval, (begin ...)
eval_begin(hs, p, env) ==
    LET r == eval_block_body(hs, cdr(hs, p), env)
    IN IF r.res # "Ok" THEN r ELSE Ok(r.hs, r.val, env)

\* eval, (define name value) and (define (name . formals) . body)
eval_define(hs, p, env) ==
    LET d == parse_pair(hs, cdr(hs, p), "(define) with no name")
        name == d.car
        rest == d.cdr
    IN IF d.res # "Ok" THEN Err(hs, d.msg)
       ELSE IF name.tag = "Symbol"
       THEN LET v == parse_pair(hs, rest, "(define) with no value")
            IN IF v.res # "Ok" THEN Err(hs, v.msg)
               ELSE IF ~null(v.cdr)
               THEN Err(hs, "too many items in (define) special form")
               ELSE LET r == eval(hs, v.car, env)
                    IN IF r.res # "Ok" THEN r
                       ELSE LET e == push(r.hs, r.env, name.name, r.val)
                            IN Ok(e.hs, Nil, e.env)
       ELSE IF name.tag = "Cons"
       THEN LET n == car(hs, name.val)
            IN IF n.tag # "Symbol" THEN Err(hs, "(define) with no name")
               ELSE LET code == hs_alloc(hs, cdr(hs, name.val), rest)
                        f == hs_alloc(code.hs, Cons(code.ref), env)
                        e == push(f.hs, env, n.name, Lambda(f.ref))
                    IN Ok(e.hs, Nil, e.env)
       ELSE Err(hs, "(define) with a non-symbol name")

\* eval, (set! name value)
eval_set(hs, p, env) ==
    LET n == parse_pair(hs, cdr(hs, p), "(set!) with no name")
        v == parse_pair(hs, n.cdr, "(set!) with no value")
    IN IF n.res # "Ok" THEN Err(hs, n.msg)
       ELSE IF n.car.tag # "Symbol" THEN Err(hs, "(set!) first argument must be a name")
       ELSE IF v.res # "Ok" THEN Err(hs, v.msg)
       ELSE IF ~null(v.cdr) THEN Err(hs, "(set!): too many arguments")
       ELSE LET r == eval(hs, v.car, env)
            IN IF r.res # "Ok" THEN r
               ELSE LET s == set(r.hs, env, n.car.name, r.val)
                    IN IF s.res = "Ok" THEN Ok(s.hs, Nil, env)
                       ELSE IF s.res = "Err" THEN Err(s.hs, s.msg)
                       ELSE Panic(s.hs, s.msg)

\* eval, a procedure call
eval_call(hs, p, env) ==
    LET f == eval(hs, car(hs, p), env)
    IN IF f.res # "Ok" THEN f
       ELSE LET a == map_eval(f.hs, cdr(f.hs, p), f.env)
            IN IF a.res # "Ok" THEN a
               ELSE LET r == apply(a.hs, f.val, a.vals)
                    IN IF r.res # "Ok" THEN r ELSE Ok(r.hs, r.val, a.env)

\* eval
eval(hs0, expr, env) ==
    leave(LET hs == [enter(hs0) EXCEPT
                        !.evaluated = Append(@, [expr |-> expr, depth |-> hs0.depth + 1])]
          IN IF expr.tag = "Symbol"
             THEN LET g == get(hs, env, expr.name)
                  IN IF g.res = "Ok" THEN Ok(hs, g.val, env)
                     ELSE IF g.res = "Err" THEN Err(hs, g.msg)
                     ELSE Panic(hs, g.msg)
             ELSE IF expr.tag = "Cons"
             THEN LET p == expr.val
                      f == car(hs, p)
                      s == IF f.tag = "Symbol" THEN f.name ELSE ""
                  IN IF s = "lambda" THEN eval_lambda(hs, p, env)
                     ELSE IF s = "quote" THEN eval_quote(hs, p, env)
                     ELSE IF s = "if" THEN eval_if(hs, p, env)
                     ELSE IF s = "begin" THEN eval_begin(hs, p, env)
                     ELSE IF s = "define" THEN eval_define(hs, p, env)
                     ELSE IF s = "set!" THEN eval_set(hs, p, env)
                     ELSE eval_call(hs, p, env)
             ELSE IF expr.tag = "Builtin"
             THEN Err(hs, "builtin function found in source code")
             ELSE Ok(hs, expr, env))

\* ------------------------------------------------------------------------
\* Source forms
\* ------------------------------------------------------------------------

\* A form as the lisp! macro receives it: a list of forms, a symbol, a numeric
\* literal, or a truth value (#t, #f of the reader).
L(items) == [k |-> "list", n |-> 0, s |-> "", items |-> items]

sym(s) == [k |-> "symbol", n |-> 0, s |-> s, items |-> <<>>]

num(n) == [k |-> "number", n |-> n, s |-> "", items |-> <<>>]

truth(b) == [k |-> "truth", n |-> IF b THEN 1 ELSE 0, s |-> "", items |-> <<>>]

\* Then(a, b) is b. A definition is evaluated where it is first used; here a
\* is evaluated before b, in the order of the source.
Then(a, b) == IF a = a THEN b ELSE b

\* macro lisp!: [hs, v]. The head is built first, then the rest of the list,
\* then the pair is allocated.
RECURSIVE lisp(_, _)
lisp(tree, hs) ==
    IF tree.k = "list"
    THEN IF Len(tree.items) = 0 THEN [hs |-> hs, v |-> Nil]
         ELSE LET h == lisp(Head(tree.items), hs)
                  t == lisp(L(Tail(tree.items)), h.hs)
                  c == hs_alloc(t.hs, h.v, t.v)
              IN Then(h.v, Then(t.v, [hs |-> c.hs, v |-> Cons(c.ref)]))
    ELSE IF tree.k = "number" THEN [hs |-> hs, v |-> Value_Int(tree.n)]
    ELSE IF tree.k = "symbol" THEN [hs |-> hs, v |-> Symbol(tree.s)]
    ELSE [hs |-> hs, v |-> Bool(tree.n = 1)]

\* Environment::default_env, cut down to the builtins the forms below call:
\* "-" and "eq?" are registered by the source, "=" stands for the prelude's
\* numeric equality.
default_env(hs) ==
    LET e1 == push(hs, Nil, "-", Builtin("-"))
        e2 == push(e1.hs, e1.env, "eq?", Builtin("eq?"))
    IN push(e2.hs, e2.env, "=", Builtin("="))

\* (if (= n 0) 'done (f (- n 1)))
CountDown(f) ==
    L(<<sym("if"), L(<<sym("="), sym("n"), num(0)>>),
        L(<<sym("quote"), sym("done")>>),
        L(<<sym(f), L(<<sym("-"), sym("n"), num(1)>>)>>)>>)

\* (define (loop n) (if (= n 0) 'done (loop (- n 1))))
DefineLoop == L(<<sym("define"), L(<<sym("loop"), sym("n")>>), CountDown("loop")>>)

\* (loop k)
LoopCall(k) == L(<<sym("loop"), num(k)>>)

\* (begin (define iter 0)
\*        (set! iter (lambda (n) (if (= n 0) 'done (iter (- n 1)))))
\*        (iter k))
TailLoop(k) ==
    L(<<sym("begin"),
        L(<<sym("define"), sym("iter"), num(0)>>),
        L(<<sym("set!"), sym("iter"),
            L(<<sym("lambda"), L(<<sym("n")>>), CountDown("iter")>>)>>),
        L(<<sym("iter"), num(k)>>)>>)

ParamNames == <<"a", "b", "c", "d">>

\* ((lambda (a b ...) a) 1 2 ...) with p parameters and k arguments
ApplyLambda(p, k) ==
    L(<<L(<<sym("lambda"), L([i \in 1 .. p |-> sym(ParamNames[i])]), sym("a")>>)>>
      \o [i \in 1 .. k |-> num(i)])

\* (define x n)
Define(x, n) == L(<<sym("define"), sym(x), num(n)>>)

\* (set! x n)
SetBang(x, n) == L(<<sym("set!"), sym(x), num(n)>>)

\* (begin (define x 1) (set! x 2) x)
BeginDefineSet == L(<<sym("begin"), Define("x", 1), SetBang("x", 2), sym("x")>>)

\* (eq? (define x n) y): the second argument fails while y is unbound.
ArgDefine(x, n, y) == L(<<sym("eq?"), Define(x, n), sym(y)>>)

\* (eq? (set! x n) y)
ArgSet(x, n, y) == L(<<sym("eq?"), SetBang(x, n), sym(y)>>)

\* (if c 'then 'else)
If(c) == L(<<sym("if"), c, L(<<sym("quote"), sym("then")>>),
                           L(<<sym("quote"), sym("else")>>)>>)

\* The conditions of the if forms: #f, #t, (), 0, 1, (= 0 1), (= 0 0), x.
Conds ==
    <<truth(FALSE), truth(TRUE), L(<<>>), num(0), num(1),
      L(<<sym("="), num(0), num(1)>>), L(<<sym("="), num(0), num(0)>>), sym("x")>>

Names == {"x", "y"}

Form(name, p, k, s, tree) == [name |-> name, p |-> p, k |-> k, sym |-> s, tree |-> tree]

\* The forms a session reads.
Forms ==
    <<Form("define_loop", 0, 0, "loop", DefineLoop)>>
    \o [k \in 1 .. MaxIter + 1 |-> Form("loop", 0, k - 1, "loop", LoopCall(k - 1))]
    \o [k \in 1 .. MaxIter + 1 |-> Form("tail_loop", 0, k - 1, "iter", TailLoop(k - 1))]
    \o [j \in 1 .. MaxParams * (MaxParams + 2) |->
           LET p == ((j - 1) \div (MaxParams + 2)) + 1
               k == (j - 1) % (MaxParams + 2)
           IN Form("apply", p, k, "", ApplyLambda(p, k))]
    \o [n \in 1 .. MaxVal |-> Form("define", 0, n, "x", Define("x", n))]
    \o [n \in 1 .. MaxVal |-> Form("set!", 0, n, "x", SetBang("x", n))]
    \o <<Form("set!", 0, 1, "y", SetBang("y", 1)),
         Form("begin", 0, 0, "x", BeginDefineSet),
         Form("arg_define", 0, MaxVal + 1, "x", ArgDefine("x", MaxVal + 1, "y")),
         Form("arg_set", 0, MaxVal + 1, "x", ArgSet("x", MaxVal + 1, "y"))>>
    \o [c \in 1 .. Len(Conds) |-> Form("if", 0, c, "", If(Conds[c]))]

\* ------------------------------------------------------------------------
\* State
\* ------------------------------------------------------------------------

VARIABLES
    heap_state,   \* "live", "dropped" (Drop for Heap completed) or "panicked"
    panic,        \* the message of the panic, "" while there was none
    storage,      \* Heap.storage: None or the HeapStorage page
    pins,         \* Heap.pins: cell address -> pin count
    handles,      \* number of live PinnedRef values per cell address
    undropped,    \* per cell: objects written there and not yet destroyed
    ub,           \* some operation read memory that holds no value
    last,         \* the last operation: its name ("ref" for a PinnedRef
                  \* clone or drop and for a field getter or setter), the
                  \* address alloc returned and the log of the GC cycle it ran
    cells,        \* evaluator: the Pair cells of the session
    env,          \* evaluator: the top-level Environment
    vm_last,      \* evaluator: the last form read and what eval made of it
    gc_state,     \* collector: where a GC cycle that is observed step by
                  \* step stands in its mark phase
    page          \* addresses: where the allocator put the page, and the
                  \* header and index last derived from a cell address

heap_vars == <<heap_state, panic, storage, pins, handles, undropped, ub, last>>

vm_vars == <<cells, env, vm_last>>

gc_vars == <<gc_state>>

addr_vars == <<page>>

vars == <<heap_state, panic, storage, pins, handles, undropped, ub, last,
          cells, env, vm_last, gc_state, page>>

World == [storage |-> storage, undropped |-> undropped, ub |-> ub]

Op(name, ret, log) == [name |-> name, ret |-> ret, gc |-> log]

\* No form has been read.
NoEval ==
    [form |-> [name |-> "new", p |-> 0, k |-> 0, sym |-> ""], step |-> 0,
     expr |-> Nil, res |-> "Ok", msg |-> "", val |-> Nil,
     evaluated |-> <<>>, max_depth |-> 0]

\* No GC cycle is observed step by step. todo is the part of self.pins the
\* loop of Heap::gc has not reached, stack the frames of Mark::mark (the cell
\* and the position in it), traced[i] the number of times the fields of cell
\* i were walked in the cycle.
NoMark ==
    [phase |-> "idle", todo |-> {}, stack |-> <<>>,
     traced |-> [i \in Index |-> 0]]

\* The address arithmetic is not observed: the page lies at address 0.
NoPage ==
    [state |-> "none", base |-> 0, align |-> 1,
     ptr |-> NULL, header |-> 0, index |-> 0, ok |-> TRUE]

\* Heap::new, inside with_heap
Heap_new ==
    /\ heap_state = "live"
    /\ panic = ""
    /\ storage = None
    /\ pins = NoPins
    /\ handles = [p \in Addr |-> 0]
    /\ undropped = [i \in Index |-> 0]
    /\ ub = FALSE
    /\ last = Op("new", NULL, NoGc)

\* A heap session on its own: no evaluator runs.
Init ==
    /\ Heap_new
    /\ cells = <<>>
    /\ env = Nil
    /\ vm_last = NoEval
    /\ gc_state = NoMark
    /\ page = NoPage

SetWorld(W) ==
    /\ storage' = W.storage
    /\ undropped' = W.undropped
    /\ ub' = W.ub

\* Heap::alloc(PairFields { head: h, tail: t }). The handles in the fields are
\* moved into the call.
Alloc(h, t) ==
    /\ heap_state = "live"
    /\ \A q \in Addr : RefsIn(h, t, q) <= handles[q]
    /\ LET r == Heap_try_alloc(World, pins, h, t)
           given == [q \in Addr |-> handles[q] - RefsIn(h, t, q)]
       IN /\ SetWorld(r.W)
          /\ pins' = r.pins
          /\ last' = Op("alloc", r.ret, r.gc)
          /\ IF ~r.ok
             THEN /\ heap_state' = "panicked"
                  /\ panic' = "assertion failed"
                  /\ handles' = given
             ELSE IF r.ret = NULL
             THEN /\ heap_state' = "panicked"
                  /\ panic' = "out of memory (gc did not collect anything)"
                  /\ handles' = given
             ELSE /\ heap_state' = "live"
                  /\ panic' = ""
                  /\ handles' = [given EXCEPT ![r.ret] = @ + 1]
    /\ UNCHANGED <<vm_vars, gc_vars, addr_vars>>

\* Heap::force_gc
ForceGc ==
    /\ heap_state = "live"
    /\ LET W == gc(World, pins)
       IN /\ SetWorld(W)
          /\ last' = Op("force_gc", NULL,
                        IF storage.is_some THEN GcLog(World, pins, W) ELSE NoGc)
    /\ UNCHANGED <<heap_state, panic, pins, handles>>
    /\ UNCHANGED <<vm_vars, gc_vars, addr_vars>>

\* Clone for PinnedRef
Clone(p) ==
    /\ heap_state = "live"
    /\ handles[p] >= 1
    /\ handles[p] < MaxPins
    /\ pins' = pin(pins, p)
    /\ handles' = [handles EXCEPT ![p] = @ + 1]
    /\ last' = Op("ref", NULL, NoGc)
    /\ UNCHANGED <<heap_state, panic, storage, undropped, ub>>
    /\ UNCHANGED <<vm_vars, gc_vars, addr_vars>>

\* Drop for PinnedRef
DropRef(p) ==
    /\ heap_state = "live"
    /\ handles[p] >= 1
    /\ pins' = unpin(pins, p)
    /\ handles' = [handles EXCEPT ![p] = @ - 1]
    /\ last' = Op("ref", NULL, NoGc)
    /\ IF unpin_ok(pins, p)
       THEN UNCHANGED <<heap_state, panic>>
       ELSE heap_state' = "panicked" /\ panic' = "assertion failed"
    /\ UNCHANGED <<storage, undropped, ub>>
    /\ UNCHANGED <<vm_vars, gc_vars, addr_vars>>

\* The generated setters Pair::set_head / Pair::set_tail on a handle to p: the
\* value is moved in (a handle in it is consumed) and stored in its heap form.
SetField(p, f, v) ==
    /\ heap_state = "live"
    /\ handles[p] >= 1
    /\ v.tag = "Pair" => handles[v.val] >= (IF v.val = p THEN 2 ELSE 1)
    /\ storage' = IF f = "head"
                  THEN [storage EXCEPT !.objects[allocation_index(p)].head = v]
                  ELSE [storage EXCEPT !.objects[allocation_index(p)].tail = v]
    /\ pins' = to_heap_unpin(pins, v)
    /\ handles' = IF v.tag = "Pair" THEN [handles EXCEPT ![v.val] = @ - 1] ELSE handles
    /\ last' = Op("ref", NULL, NoGc)
    /\ IF to_heap_ok(pins, v)
       THEN UNCHANGED <<heap_state, panic>>
       ELSE heap_state' = "panicked" /\ panic' = "assertion failed"
    /\ UNCHANGED <<undropped, ub>>
    /\ UNCHANGED <<vm_vars, gc_vars, addr_vars>>

\* The generated getters Pair::head / Pair::tail on a handle to p: from_heap
\* builds a new PinnedRef (PinnedRef::new) when the field holds a Pair.
GetField(p, f) ==
    /\ heap_state = "live"
    /\ handles[p] >= 1
    /\ LET cell == storage.objects[allocation_index(p)]
           v == IF f = "head" THEN cell.head ELSE cell.tail
       IN /\ v.tag = "Pair" => handles[v.val] < MaxPins
          /\ pins' = IF v.tag = "Pair" THEN pin(pins, v.val) ELSE pins
          /\ handles' = IF v.tag = "Pair" THEN [handles EXCEPT ![v.val] = @ + 1]
                        ELSE handles
          /\ ub' = (ub \/ ~IsValue(v))
          /\ last' = Op("ref", NULL, NoGc)
    /\ UNCHANGED <<heap_state, panic, storage, undropped>>
    /\ UNCHANGED <<vm_vars, gc_vars, addr_vars>>

\* A faulty DropHeap: the final GC runs before the pin table is checked.
DropHeap_gc_first ==
    /\ heap_state = "live"
    /\ LET W == gc(World, pins)
           none == \A i \in Index : ~W.storage.allocated_bits[i]
       IN /\ storage' = HeapStorage_drop(W.storage)
          /\ undropped' = W.undropped
          /\ ub' = W.ub
          /\ last' = Op("drop_heap", NULL,
                        IF storage.is_some THEN GcLog(World, pins, W) ELSE NoGc)
          /\ IF pins # NoPins
             THEN /\ heap_state' = "panicked"
                  /\ panic' = "assertion failed: self.pins.borrow().is_empty()"
             ELSE IF ~W.storage.is_some \/ none
             THEN heap_state' = "dropped" /\ panic' = ""
             ELSE /\ heap_state' = "panicked"
                  /\ panic' = "assertion failed: allocated_bits.none()"
    /\ UNCHANGED <<pins, handles>>
    /\ UNCHANGED <<vm_vars, gc_vars, addr_vars>>

\* Drop for Heap, followed by the drop of its storage field. Handles that are
\* still live at this point have been leaked by the user.
DropHeap ==
    /\ heap_state = "live"
    /\ IF pins # NoPins
       THEN /\ heap_state' = "panicked"
            /\ panic' = "assertion failed: self.pins.borrow().is_empty()"
            /\ storage' = HeapStorage_drop(storage)
            /\ last' = Op("drop_heap", NULL, NoGc)
            /\ UNCHANGED <<undropped, ub>>
       ELSE LET W == gc(World, pins)
                none == \A i \in Index : ~W.storage.allocated_bits[i]
            IN /\ storage' = HeapStorage_drop(W.storage)
               /\ undropped' = W.undropped
               /\ ub' = W.ub
               /\ last' = Op("drop_heap", NULL,
                             IF storage.is_some THEN GcLog(World, pins, W) ELSE NoGc)
               /\ IF ~W.storage.is_some \/ none
                  THEN heap_state' = "dropped" /\ panic' = ""
                  ELSE /\ heap_state' = "panicked"
                       /\ panic' = "assertion failed: allocated_bits.none()"
    /\ UNCHANGED <<pins, handles>>
    /\ UNCHANGED <<vm_vars, gc_vars, addr_vars>>

Next ==
    \/ \E h, t \in ValueStorage : Alloc(h, t)
    \/ ForceGc
    \/ \E p \in Addr : Clone(p)
    \/ \E p \in Addr : DropRef(p)
    \/ \E p \in Addr, f \in {"head", "tail"}, v \in ValueStorage : SetField(p, f, v)
    \/ \E p \in Addr, f \in {"head", "tail"} : GetField(p, f)
    \/ DropHeap

Spec == Init /\ [][Next]_vars

\* ------------------------------------------------------------------------
\* An evaluator session
\* ------------------------------------------------------------------------

\* Environment::default_env on a new session.
InitVm ==
    /\ Heap_new
    /\ LET e == default_env(Session(<<>>))
       IN /\ cells = e.hs.cells
          /\ env = e.env
    /\ vm_last = NoEval
    /\ gc_state = NoMark
    /\ page = NoPage

\* The session reads a form and evaluates it at top level: eval(hs, expr, env).
\* On Ok the environment eval returns replaces the top-level one, as in the
\* loop of default_env; a panic ends the session.
Eval(form) ==
    /\ vm_last.res # "Panic"
    /\ vm_last.step < MaxSteps
    /\ LET src == lisp(form.tree, Session(cells))
           r == eval(src.hs, src.v, env)
       IN /\ cells' = r.hs.cells
          /\ env' = IF r.res = "Ok" THEN r.env ELSE env
          /\ vm_last' = [form |-> [name |-> form.name, p |-> form.p,
                                   k |-> form.k, sym |-> form.sym],
                         step |-> vm_last.step + 1,
                         expr |-> src.v, res |-> r.res, msg |-> r.msg, val |-> r.val,
                         evaluated |-> r.hs.evaluated,
                         max_depth |-> r.hs.max_depth]
    /\ UNCHANGED <<heap_vars, gc_vars, addr_vars>>

\* The host program calls Environment::push on the top-level environment.
Push(key, n) ==
    /\ vm_last.res # "Panic"
    /\ vm_last.step < MaxSteps
    /\ LET e == push(Session(cells), env, key, Value_Int(n))
       IN /\ cells' = e.hs.cells
          /\ env' = e.env
          /\ vm_last' = [NoEval EXCEPT !.form = [name |-> "push", p |-> 0,
                                                 k |-> n, sym |-> key],
                                       !.step = vm_last.step + 1]
    /\ UNCHANGED <<heap_vars, gc_vars, addr_vars>>

NextVm ==
    \/ \E i \in 1 .. Len(Forms) : Eval(Forms[i])
    \/ \E key \in Names, n \in 1 .. MaxVal : Push(key, n)

SpecVm == InitVm /\ [][NextVm]_vars

\* ------------------------------------------------------------------------
\* The mark phase of one GC cycle, one step at a time
\* ------------------------------------------------------------------------

\* A frame of Mark::mark for PairStorage: the cell and the position in it.
Frame(ptr, pc) == [ptr |-> ptr, pc |-> pc]

\* The session is about to run Heap::gc on a full page: every cell holds a
\* pair, fields hold any values (setters build every graph, with cycles and
\* self-references), the mark bits are what an earlier cycle left, and any
\* set of cells is pinned once.
InitMark ==
    /\ heap_state = "live"
    /\ panic = ""
    /\ \E objs \in [Index -> [head : ValueStorage, tail : ValueStorage]],
          bits \in [Index -> BOOLEAN] :
           storage = [is_some |-> TRUE,
                      mark_bits |-> bits,
                      allocated_bits |-> [i \in Index |-> TRUE],
                      freelist |-> NULL,
                      objects |-> objs]
    /\ \E roots \in SUBSET Addr :
           /\ pins = [q \in roots |-> 1]
           /\ handles = [q \in Addr |-> IF q \in roots THEN 1 ELSE 0]
    /\ undropped = [i \in Index |-> 1]
    /\ ub = FALSE
    /\ last = Op("ref", NULL, NoGc)
    /\ cells = <<>>
    /\ env = Nil
    /\ vm_last = NoEval
    /\ gc_state = [NoMark EXCEPT !.phase = "start"]
    /\ page = NoPage

\* Heap::gc, up to the loop: storage.mark_bits.clear().
GcClear ==
    /\ gc_state.phase = "start"
    /\ storage.is_some
    /\ storage' = [storage EXCEPT !.mark_bits = [i \in Index |-> FALSE]]
    /\ gc_state' = [gc_state EXCEPT !.phase = "mark", !.todo = DOMAIN pins]
    /\ UNCHANGED <<heap_state, panic, pins, handles, undropped, ub, last, vm_vars, addr_vars>>

\* One turn of the loop over self.pins: Heap::mark_any(p) enters Mark::mark
\* through mark_entry_point. The HashMap yields the pins in any order.
MarkRoot(ptr) ==
    /\ gc_state.phase = "mark"
    /\ gc_state.stack = <<>>
    /\ ptr \in gc_state.todo
    /\ gc_state' = [gc_state EXCEPT !.todo = @ \ {ptr},
                                    !.stack = <<Frame(ptr, "entry")>>]
    /\ UNCHANGED <<heap_vars, vm_vars, addr_vars>>

\* Mark::mark for PairStorage, at entry: a cell whose mark bit is set is left
\* at once; otherwise the bit is set and the fields are walked.
MarkEnter ==
    /\ gc_state.phase = "mark"
    /\ gc_state.stack # <<>>
    /\ LET n == Len(gc_state.stack)
           f == gc_state.stack[n]
       IN /\ f.pc = "entry"
          /\ IF get_mark_bit(storage, f.ptr)
             THEN /\ gc_state' = [gc_state EXCEPT !.stack = SubSeq(@, 1, n - 1)]
                  /\ storage' = storage
             ELSE /\ storage' = set_mark_bit(storage, f.ptr)
                  /\ gc_state' = [gc_state EXCEPT
                         !.stack[n].pc = "head",
                         !.traced[allocation_index(f.ptr)] = @ + 1]
    /\ UNCHANGED <<heap_state, panic, pins, handles, undropped, ub, last, vm_vars, addr_vars>>

\* Mark::mark for PairStorage, at a field: Mark for ValueStorage calls
\* Mark::mark on the cell a Pair value points to and does nothing for the
\* other values.
MarkField ==
    /\ gc_state.phase = "mark"
    /\ gc_state.stack # <<>>
    /\ LET n == Len(gc_state.stack)
           f == gc_state.stack[n]
           cell == storage.objects[allocation_index(f.ptr)]
           v == IF f.pc = "head" THEN cell.head ELSE cell.tail
           after == IF f.pc = "head" THEN "tail" ELSE "return"
       IN /\ f.pc \in {"head", "tail"}
          /\ v.tag = "Pair" => n < MaxDepth
          /\ gc_state' = [gc_state EXCEPT !.stack =
                 IF v.tag = "Pair"
                 THEN Append([@ EXCEPT ![n].pc = after], Frame(v.val, "entry"))
                 ELSE [@ EXCEPT ![n].pc = after]]
          /\ ub' = (ub \/ ~IsValue(v))
    /\ UNCHANGED <<heap_state, panic, storage, pins, handles, undropped, last, vm_vars, addr_vars>>

\* Mark::mark for PairStorage returns to its caller.
MarkReturn ==
    /\ gc_state.phase = "mark"
    /\ gc_state.stack # <<>>
    /\ LET n == Len(gc_state.stack)
       IN /\ gc_state.stack[n].pc = "return"
          /\ gc_state' = [gc_state EXCEPT !.stack = SubSeq(@, 1, n - 1)]
    /\ UNCHANGED <<heap_vars, vm_vars, addr_vars>>

\* The loop over self.pins is over: the mark phase is done and the sweep is
\* next.
MarkDone ==
    /\ gc_state.phase = "mark"
    /\ gc_state.stack = <<>>
    /\ gc_state.todo = {}
    /\ gc_state' = [gc_state EXCEPT !.phase = "marked"]
    /\ UNCHANGED <<heap_vars, vm_vars, addr_vars>>

NextMark ==
    \/ GcClear
    \/ \E ptr \in Addr : MarkRoot(ptr)
    \/ MarkEnter
    \/ MarkField
    \/ MarkReturn
    \/ MarkDone

\* Heap::gc is straight-line code run by the one thread that owns the heap:
\* once called it keeps taking steps until it returns.
SpecMark == InitMark /\ [][NextMark]_vars /\ WF_vars(NextMark)

\* ------------------------------------------------------------------------
\* From a cell address to its page and its index
\* ------------------------------------------------------------------------

\* Box::new has put the page somewhere in the address space (the block does
\* not wrap around), in a build whose HEAP_STORAGE_ALIGN is some power of two.
InitAddr ==
    /\ Heap_new
    /\ cells = <<>>
    /\ env = Nil
    /\ vm_last = NoEval
    /\ gc_state = NoMark
    /\ \E base \in 0 .. (2 ^ AddrBits - PageSize), k \in 1 .. MaxAlignBits :
           page = [NoPage EXCEPT !.state = "boxed", !.base = base, !.align = 2 ^ k]

\* HeapStorage::new after Box::new: the assertions on the address and the size.
NewPage ==
    /\ page.state = "boxed"
    /\ page' = [page EXCEPT !.state =
                   IF HeapStorage_new_ok(page.base, page.align) THEN "new"
                   ELSE "panicked"]
    /\ UNCHANGED <<heap_vars, vm_vars, gc_vars>>

\* Heap::get_mark_bit / set_mark_bit on the address of cell i, which try_alloc
\* handed out: find_header masks the address, then allocation_index of the
\* page found there computes the index and checks its assertions.
FindHeader(i) ==
    /\ page.state = "new"
    /\ LET ptr == cell_address(page.base, i)
           header == find_header(ptr, page.align)
       IN page' = [page EXCEPT !.ptr = ptr,
                               !.header = header,
                               !.index = allocation_index(ptr - header),
                               !.ok = allocation_index_ok(ptr - header)]
    /\ UNCHANGED <<heap_vars, vm_vars, gc_vars>>

NextAddr ==
    \/ NewPage
    \/ \E i \in Index : FindHeader(i)

SpecAddr == InitAddr /\ [][NextAddr]_vars

\* ------------------------------------------------------------------------
\* The heap graph
\* ------------------------------------------------------------------------

\* The cells the fields of cell p point to.
Succ(S, p) ==
    LET cell == S.objects[allocation_index(p)]
    IN { v.val : v \in { w \in {cell.head, cell.tail} : w.tag = "Pair" } }

RECURSIVE Closure(_, _, _)
Closure(S, seen, frontier) ==
    IF frontier = {} THEN seen
    ELSE LET nxt == (UNION { Succ(S, p) : p \in frontier }) \ seen
         IN Closure(S, seen \cup nxt, nxt)

\* The cells reachable from roots by following head/tail references.
Reachable(S, roots) == Closure(S, roots, roots)

\* p lies on a cycle of head/tail references.
OnCycle(S, p) == p \in Reachable(S, Succ(S, p))

\* The freelist as the sequence of cells met by following the links, cut off
\* after HEAP_SIZE + 1 cells.
RECURSIVE FreeWalk(_, _, _)
FreeWalk(S, p, n) ==
    IF p = NULL \/ n = 0 THEN <<>>
    ELSE <<p>> \o FreeWalk(S, S.objects[allocation_index(p)].head.val, n - 1)

FreeList(S) == FreeWalk(S, S.freelist, HEAP_SIZE + 1)

TimesOnFreeList(S, p) ==
    Cardinality({ k \in 1 .. Len(FreeList(S)) : FreeList(S)[k] = p })

Allocated(S) == { address(i) : i \in { j \in Index : S.allocated_bits[j] } }

\* ------------------------------------------------------------------------
\* Properties of a GC cycle
\* ------------------------------------------------------------------------

\* C1: for every GC cycle (in force_gc, in alloc, at session drop), every cell
\* whose address has a pin count of at least 1 when the cycle starts has its
\* mark bit set after the mark phase, and after the sweep its allocated bit is
\* still set and it is not on the freelist.
C1_PinnedSurvivesGc ==
    last.gc.ran =>
        \A p \in DOMAIN last.gc.before.pins :
            last.gc.before.pins[p] >= 1 =>
                /\ last.gc.after.storage.mark_bits[allocation_index(p)]
                /\ last.gc.after.storage.allocated_bits[allocation_index(p)]
                /\ TimesOnFreeList(last.gc.after.storage, p) = 0

\* A cycle that started with a pinned cell and swept another cell.
C1_Witness ==
    /\ last.gc.ran
    /\ \E p \in DOMAIN last.gc.before.pins :
           /\ last.gc.before.pins[p] >= 1
           /\ last.gc.after.storage.mark_bits[allocation_index(p)]
    /\ \E i \in Index :
           /\ last.gc.before.storage.allocated_bits[i]
           /\ ~last.gc.after.storage.allocated_bits[i]

\* C2: whatever alloc, field set, clone, drop and GC steps led to a state,
\* every cell reachable from a pinned address through head/tail references is
\* allocated, off the freelist and holds two values; no operation has read
\* freed memory.
C2_NoUseAfterFree ==
    last.name # "drop_heap" =>
        /\ ~ub
        /\ pins # NoPins => storage.is_some
        /\ \A p \in Reachable(storage, DOMAIN pins) :
               /\ storage.allocated_bits[allocation_index(p)]
               /\ TimesOnFreeList(storage, p) = 0
               /\ IsValue(storage.objects[allocation_index(p)].head)
               /\ IsValue(storage.objects[allocation_index(p)].tail)

\* After a GC cycle a cell that is not pinned is kept alive by a pinned one.
C2_Witness ==
    /\ last.name = "force_gc"
    /\ last.gc.ran
    /\ \E q \in Reachable(storage, DOMAIN pins) \ DOMAIN pins :
           storage.allocated_bits[allocation_index(q)]

\* C3: after a GC cycle, every cell that was allocated before the cycle and
\* was not reachable from a pinned address has had the destructor of its
\* object run exactly once, has its allocated bit clear and is on the freelist
\* (once).
C3_UnreachableFreed ==
    last.gc.ran =>
        \A i \in Index :
            ( /\ last.gc.before.storage.allocated_bits[i]
              /\ address(i) \notin Reachable(last.gc.before.storage,
                                             DOMAIN last.gc.before.pins) )
            => /\ last.gc.before.undropped[i] = 1
               /\ last.gc.after.undropped[i] = 0
               /\ ~last.gc.after.storage.allocated_bits[i]
               /\ TimesOnFreeList(last.gc.after.storage, address(i)) = 1

\* A cycle that found an unreachable cell next to a reachable one.
C3_Witness ==
    /\ last.gc.ran
    /\ \E i, j \in Index :
           /\ last.gc.before.storage.allocated_bits[i]
           /\ address(i) \notin Reachable(last.gc.before.storage,
                                          DOMAIN last.gc.before.pins)
           /\ last.gc.after.undropped[i] = 0
           /\ address(j) \in Reachable(last.gc.before.storage,
                                       DOMAIN last.gc.before.pins)

\* C4: a cell that lies on a cycle of pair references and is not reachable
\* from any pinned address when a GC cycle starts is free after that one
\* cycle.
C4_CycleCollected ==
    last.gc.ran =>
        \A p \in Allocated(last.gc.before.storage) :
            ( /\ OnCycle(last.gc.before.storage, p)
              /\ p \notin Reachable(last.gc.before.storage,
                                    DOMAIN last.gc.before.pins) )
            => ~last.gc.after.storage.allocated_bits[allocation_index(p)]

\* force_gc ran on two cells that referenced each other with nothing pinned,
\* and no allocated bit is left.
C4_Witness ==
    /\ last.name = "force_gc"
    /\ last.gc.ran
    /\ last.gc.before.pins = NoPins
    /\ \E p, q \in Allocated(last.gc.before.storage) :
           /\ p # q
           /\ q \in Succ(last.gc.before.storage, p)
           /\ p \in Succ(last.gc.before.storage, q)
    /\ \A i \in Index : ~storage.allocated_bits[i]

\* ------------------------------------------------------------------------
\* Properties of alloc, the pin table and the session drop
\* ------------------------------------------------------------------------

OutOfMemory == "out of memory (gc did not collect anything)"

\* Every cell of the page is reachable from a pinned address.
AllReachable == storage.is_some /\ Reachable(storage, DOMAIN pins) = Addr

\* C5: alloc returns a new pinned reference unless every one of the HEAP_SIZE
\* cells is reachable from the pins when it is called (the handles moved in
\* with the fields are pins); in that case, and only then, it panics with
\* out of memory, after finding the freelist empty and running one GC cycle
\* that frees no cell. With a free cell at hand it allocates without a GC.
C5_AllocFailsOnlyWhenFull ==
    [][last'.name = "alloc" =>
          /\ AllReachable <=> last'.ret = NULL
          /\ last'.ret = NULL =>
                 /\ heap_state' = "panicked"
                 /\ panic' = OutOfMemory
                 /\ storage.freelist = NULL
                 /\ last'.gc.ran
                 /\ last'.gc.after.storage.allocated_bits = storage.allocated_bits
          /\ last'.ret # NULL =>
                 /\ heap_state' = "live"
                 /\ last'.ret \in Addr
                 /\ storage'.allocated_bits[allocation_index(last'.ret)]
                 /\ last'.ret \in DOMAIN pins'
                 /\ handles'[last'.ret] >= 1
                 /\ last'.gc.ran <=> (storage.is_some /\ storage.freelist = NULL)
      ]_vars

\* alloc found the freelist empty, ran a GC cycle that freed a cell and
\* returned that cell.
C5_Witness ==
    /\ last.name = "alloc"
    /\ last.gc.ran
    /\ last.ret # NULL
    /\ heap_state = "live"
    /\ last.ret \in DOMAIN pins
    /\ last.gc.before.storage.allocated_bits[allocation_index(last.ret)]

\* C6: an address is in the pin table exactly while it has been pinned more
\* often than unpinned, its count is the difference, and no entry has count
\* zero.
C6_PinCounts ==
    \A p \in Addr :
        IF handles[p] > 0
        THEN p \in DOMAIN pins /\ pins[p] = handles[p]
        ELSE p \notin DOMAIN pins

\* One address is pinned twice while the entry of another allocated cell has
\* been removed by its last unpin.
C6_Witness ==
    /\ storage.is_some
    /\ \E p, q \in Addr :
           /\ p \in DOMAIN pins
           /\ pins[p] = 2
           /\ storage.allocated_bits[allocation_index(q)]
           /\ q \notin DOMAIN pins

\* C7: a session dropped with an empty pin table ends with no allocated bit
\* set and every object destroyed: neither assertion of the destructor fails.
C7_DropFreesAll ==
    (last.name = "drop_heap" /\ pins = NoPins) =>
        /\ heap_state = "dropped"
        /\ panic = ""
        /\ storage.is_some =>
               \A i \in Index : ~storage.allocated_bits[i] /\ undropped[i] = 0

\* The final GC of a dropped session found every cell allocated.
C7_Witness ==
    /\ last.name = "drop_heap"
    /\ heap_state = "dropped"
    /\ last.gc.ran
    /\ \A i \in Index : last.gc.before.storage.allocated_bits[i]
    /\ \A i \in Index : ~storage.allocated_bits[i]

PinsNotEmpty == "assertion failed: self.pins.borrow().is_empty()"

\* C8: a session dropped while its pin table is not empty panics on the
\* first assertion and runs no GC cycle; the final GC only ever starts from
\* an empty pin table.
C8_DropWithPinsPanics ==
    last.name = "drop_heap" =>
        /\ pins # NoPins =>
               /\ heap_state = "panicked"
               /\ panic = PinsNotEmpty
               /\ ~last.gc.ran
        /\ last.gc.ran => last.gc.before.pins = NoPins

\* A session was dropped with a pin left and an unpinned cell that the final
\* GC would have freed is still allocated.
C8_Witness ==
    /\ last.name = "drop_heap"
    /\ heap_state = "panicked"
    /\ pins # NoPins
    /\ \E i \in Index :
           storage.allocated_bits[i] /\ address(i) \notin DOMAIN pins

\* PinnedRef { ptr, heap_id }
PinnedRef(p) == [ptr |-> p, heap_id |-> "a"]

\* PartialEq for PinnedRef
PinnedRef_eq(a, b) == a.ptr = b.ptr

\* C9: the reference alloc returns is unequal to every reference that is
\* live when alloc is called.
C9_AllocReturnsFreshRef ==
    [][(last'.name = "alloc" /\ last'.ret # NULL) =>
          \A q \in Addr :
              handles[q] > 0 => ~PinnedRef_eq(PinnedRef(last'.ret), PinnedRef(q))
      ]_vars

\* alloc returned a cell whose fields equal those of another cell that a live
\* reference holds, and the two references are unequal.
C9_Witness ==
    /\ last.name = "alloc"
    /\ last.ret # NULL
    /\ \E q \in Addr :
           /\ q # last.ret
           /\ handles[q] > 0
           /\ storage.objects[allocation_index(q)]
                  = storage.objects[allocation_index(last.ret)]
           /\ ~PinnedRef_eq(PinnedRef(last.ret), PinnedRef(q))

\* C10: a GC cycle leaves the fields of every cell that is allocated after it
\* as they were before it; force_gc leaves the pin table as it was; and a
\* cycle that starts with exactly one cell allocated, that cell being pinned,
\* ends with exactly one allocated bit set.
C10_GcKeepsSurvivors ==
    last.gc.ran =>
        /\ \A i \in Index :
               last.gc.after.storage.allocated_bits[i] =>
                   /\ last.gc.before.storage.allocated_bits[i]
                   /\ last.gc.after.storage.objects[i]
                          = last.gc.before.storage.objects[i]
        /\ last.name = "force_gc" => pins = last.gc.before.pins
        /\ ( /\ Cardinality(Allocated(last.gc.before.storage)) = 1
             /\ Allocated(last.gc.before.storage) = DOMAIN last.gc.before.pins )
           => Cardinality(Allocated(last.gc.after.storage)) = 1

\* force_gc ran with one cell allocated, pinned and holding an Int, next to a
\* cell that had been freed before; the cell is still there and unchanged.
C10_Witness ==
    /\ last.name = "force_gc"
    /\ last.gc.ran
    /\ \E p \in Addr :
           /\ Allocated(last.gc.before.storage) = {p}
           /\ DOMAIN last.gc.before.pins = {p}
           /\ Allocated(storage) = {p}
           /\ storage.objects[allocation_index(p)].head = Int_(1)
           /\ storage.objects[allocation_index(p)]
                  = last.gc.before.storage.objects[allocation_index(p)]
    /\ \E i \in Index : ~storage.allocated_bits[i] /\ undropped[i] = 0

\* ------------------------------------------------------------------------
\* The environment chain
\* ------------------------------------------------------------------------

\* The ribs of an environment, innermost first.
RECURSIVE Ribs(_, _)
Ribs(hs, e) ==
    IF e.tag = "Cons" /\ car(hs, e.val).tag = "Cons"
    THEN <<car(hs, e.val).val>> \o Ribs(hs, cdr(hs, e.val))
    ELSE <<>>

\* The innermost rib of e that binds name, 0 when no rib does.
Innermost(hs, e, name) ==
    LET ribs == Ribs(hs, e)
        at == { i \in 1 .. Len(ribs) : car(hs, ribs[i]) = Symbol(name) }
    IN IF at = {} THEN 0
       ELSE ribs[CHOOSE i \in at : \A j \in at : i <= j]

\* The names the forms and the host program bind or look up.
AllNames == Names \cup {"loop", "iter", "n", "a", "-", "=", "eq?", "z"}

\* ------------------------------------------------------------------------
\* Properties of the evaluator
\* ------------------------------------------------------------------------

\* C11: a Lambda applied to fewer arguments than it has parameters yields the
\* Err "apply: not enough arguments", and applied to more arguments than
\* parameters the Err "apply: too many arguments"; neither case panics.
C11_ArityErrors ==
    vm_last.form.name = "apply" =>
        /\ vm_last.form.k < vm_last.form.p =>
               vm_last.res = "Err" /\ vm_last.msg = "apply: not enough arguments"
        /\ vm_last.form.k > vm_last.form.p =>
               vm_last.res = "Err" /\ vm_last.msg = "apply: too many arguments"

\* C12: once (define (loop n) (if (= n 0) 'done (loop (- n 1)))) has been
\* evaluated, (loop k) yields the symbol done for every k >= 0.
C12_DefinedProcedureCallsItself ==
    ( /\ vm_last.form.name = "loop"
      /\ Innermost(Session(cells), env, "loop") # 0 )
    => vm_last.res = "Ok" /\ vm_last.val = Symbol("done")

\* C13: while a self-tail-recursive loop runs, every evaluation of one and the
\* same expression of its body happens at the same host stack depth, and so
\* the depth of the whole run is the depth of a run of one iteration.
C13_TailCallsBounded ==
    (vm_last.form.name = "tail_loop" /\ vm_last.res = "Ok") =>
        \A i, j \in 1 .. Len(vm_last.evaluated) :
            ( /\ vm_last.evaluated[i].expr.tag = "Cons"
              /\ vm_last.evaluated[i].expr = vm_last.evaluated[j].expr )
            => vm_last.evaluated[i].depth = vm_last.evaluated[j].depth

\* C14: (set! name n) on a name no rib of the environment binds returns the
\* undefined-name error, writes no cell and leaves the environment as it was;
\* on a bound name it writes n into the innermost rib that binds the name and
\* nothing else; (begin (define x 1) (set! x 2) x) yields 2.
C14_SetBang ==
    [][ /\ vm_last'.form.name = "set!" =>
               LET name == vm_last'.form.sym
                   rib == Innermost(Session(cells), env, name)
               IN /\ env' = env
                  /\ Ribs(Session(cells'), env') = Ribs(Session(cells), env)
                  /\ IF rib = 0
                     THEN /\ vm_last'.res = "Err"
                          /\ vm_last'.msg = UndefinedSymbol
                          /\ \A p \in 1 .. Len(cells) : cells'[p] = cells[p]
                          /\ Innermost(Session(cells'), env', name) = 0
                     ELSE /\ vm_last'.res = "Ok"
                          /\ cells'[rib] = [car |-> Symbol(name),
                                            cdr |-> Value_Int(vm_last'.form.k)]
                          /\ \A p \in (1 .. Len(cells)) \ {rib} : cells'[p] = cells[p]
        /\ vm_last'.form.name = "begin" =>
               vm_last'.res = "Ok" /\ vm_last'.val = Value_Int(2)
      ]_vars

\* (set! x n) changed the inner one of two bindings of x.
C14_Witness ==
    /\ vm_last.form.name = "set!"
    /\ vm_last.res = "Ok"
    /\ LET ribs == Ribs(Session(cells), env)
       IN \E i, j \in 1 .. Len(ribs) :
              /\ i < j
              /\ cells[ribs[i]].car = Symbol("x")
              /\ cells[ribs[j]].car = Symbol("x")
              /\ cells[ribs[i]].cdr = Value_Int(vm_last.form.k)
              /\ cells[ribs[j]].cdr # Value_Int(vm_last.form.k)
              /\ \A h \in 1 .. (i - 1) : cells[ribs[h]].car # Symbol("x")

\* C15: lookup finds the innermost rib that binds the name and reports a name
\* no rib binds as undefined; after push(name, v) the name yields v, no cell
\* that existed is written (an outer binding of the name keeps its value), and
\* every other name yields what it did.
C15_PushShadows ==
    [][ /\ \A m \in AllNames :
               LET rib == Innermost(Session(cells'), env', m)
               IN lookup(Session(cells'), env', m) =
                      IF rib = 0 THEN [res |-> "Err", rib |-> 0, msg |-> UndefinedSymbol]
                      ELSE [res |-> "Ok", rib |-> rib, msg |-> ""]
        /\ vm_last'.form.name = "push" =>
               LET key == vm_last'.form.sym
               IN /\ get(Session(cells'), env', key) =
                         [res |-> "Ok", val |-> Value_Int(vm_last'.form.k), msg |-> ""]
                  /\ \A p \in 1 .. Len(cells) : cells'[p] = cells[p]
                  /\ \A m \in AllNames \ {key} :
                         get(Session(cells'), env', m) = get(Session(cells), env, m)
      ]_vars

\* push bound x while an outer binding of x with another value existed; x
\* yields the new value, y is bound too, and z is undefined.
C15_Witness ==
    /\ vm_last.form.name = "push"
    /\ vm_last.form.sym = "x"
    /\ get(Session(cells), env, "x").val = Value_Int(vm_last.form.k)
    /\ \E i \in 2 .. Len(Ribs(Session(cells), env)) :
           LET rib == Ribs(Session(cells), env)[i]
           IN /\ cells[rib].car = Symbol("x")
              /\ cells[rib].cdr # Value_Int(vm_last.form.k)
    /\ get(Session(cells), env, "y").res = "Ok"
    /\ get(Session(cells), env, "z").res = "Err"

\* The expressions of the form (if c t e) at expr.
IfParts(hs, expr) ==
    LET r1 == cdr(hs, expr.val)
        r2 == cdr(hs, r1.val)
        r3 == cdr(hs, r2.val)
    IN [c |-> car(hs, r1.val), t |-> car(hs, r2.val), e |-> car(hs, r3.val)]

\* C16: (if c t e) evaluates e exactly when c evaluates to Bool(false) and t
\* exactly when c evaluates to any other value; the other branch is not
\* evaluated, and neither is when c fails.
C16_IfBranches ==
    [][ vm_last'.form.name = "if" =>
            LET hs == Session(cells')
                parts == IfParts(hs, vm_last'.expr)
                c == eval(hs, parts.c, env)
                Evaluated(x) ==
                    \E i \in 1 .. Len(vm_last'.evaluated) : vm_last'.evaluated[i].expr = x
            IN IF c.res # "Ok"
               THEN /\ vm_last'.res = c.res
                    /\ ~Evaluated(parts.t)
                    /\ ~Evaluated(parts.e)
               ELSE /\ vm_last'.res = "Ok"
                    /\ Evaluated(parts.e) <=> (c.val = Bool(FALSE))
                    /\ Evaluated(parts.t) <=> (c.val # Bool(FALSE))
                    /\ vm_last'.val = IF c.val = Bool(FALSE) THEN Symbol("else")
                                      ELSE Symbol("then")
      ]_vars

\* (if () 'then 'else) yielded then after x had been bound.
C16_Witness ==
    /\ vm_last.form.name = "if"
    /\ IfParts(Session(cells), vm_last.expr).c = Nil
    /\ vm_last.val = Symbol("then")
    /\ \E i \in 1 .. Len(vm_last.evaluated) :
           vm_last.evaluated[i].expr = IfParts(Session(cells), vm_last.expr).t
    /\ Innermost(Session(cells), env, "x") # 0

\* ------------------------------------------------------------------------
\* Properties of the freelist and of when a GC cycle runs
\* ------------------------------------------------------------------------

\* C18: between operations of a session, a cell is on the freelist exactly
\* when its allocated bit is clear, a free cell is on it once, and the
\* assertion of try_alloc holds (it has not failed in the alloc just made and
\* would not fail in the next one, with or without a GC cycle before it).
C18_FreeListMatchesBits ==
    (storage.is_some /\ last.name # "drop_heap") =>
        /\ \A i \in Index :
               TimesOnFreeList(storage, address(i)) =
                   IF storage.allocated_bits[i] THEN 0 ELSE 1
        /\ Len(FreeList(storage)) <= HEAP_SIZE
        /\ HeapStorage_try_alloc(storage).ok
        /\ HeapStorage_try_alloc(gc(World, pins).storage).ok
        /\ last.name = "alloc" => panic # "assertion failed"

\* alloc ran a GC cycle that freed both cells and took one of them: one cell
\* is allocated and the other is the whole freelist.
C18_Witness ==
    /\ last.name = "alloc"
    /\ last.gc.ran
    /\ heap_state = "live"
    /\ \E i, j \in Index :
           /\ storage.allocated_bits[i]
           /\ ~storage.allocated_bits[j]
           /\ FreeList(storage) = <<address(j)>>
           /\ last.gc.before.storage.allocated_bits[j]

\* C20: a GC cycle runs only in force_gc, at the session drop, and in an alloc
\* that is called when the freelist of the page is empty; such an alloc is one
\* cycle followed by the allocation; an alloc called with a free cell at hand
\* (or before the page exists) runs none; a PinnedRef clone or drop and a
\* field getter or setter run none and leave the bits, the freelist and the
\* objects' destructors alone.
C20_GcOnlyWhenFull ==
    [][ /\ last'.gc.ran =>
               /\ last'.name \in {"alloc", "force_gc", "drop_heap"}
               /\ last'.name = "alloc" =>
                      /\ storage.is_some
                      /\ storage.freelist = NULL
                      /\ last'.gc.after.storage = gc(World, pins).storage
                      /\ \A i \in Index :
                             storage'.allocated_bits[i] =
                                 ( last'.gc.after.storage.allocated_bits[i]
                                   \/ address(i) = last'.ret )
        /\ (last'.name = "alloc" /\ storage.is_some /\ storage.freelist # NULL) =>
               ~last'.gc.ran
        /\ (last'.name = "alloc" /\ ~storage.is_some) => ~last'.gc.ran
        /\ last'.name = "ref" =>
               /\ ~last'.gc.ran
               /\ storage'.allocated_bits = storage.allocated_bits
               /\ storage'.mark_bits = storage.mark_bits
               /\ storage'.freelist = storage.freelist
               /\ undropped' = undropped
      ]_vars

\* alloc took the last free cell of the page without a GC cycle, while the
\* other cell was unpinned garbage.
C20_Witness ==
    /\ last.name = "alloc"
    /\ ~last.gc.ran
    /\ heap_state = "live"
    /\ \A i \in Index : storage.allocated_bits[i]
    /\ \E i \in Index : address(i) \notin Reachable(storage, DOMAIN pins)

\* C19: the mark phase of a GC cycle comes to its end on every heap graph,
\* with cycles and self-references included; in the cycle the fields of a
\* cell are walked at most once, and the stack of Mark::mark frames never
\* holds more than a frame per cell and one that returns at entry; when the
\* phase is over exactly the cells reachable from the pins were walked, once
\* each, and exactly they carry a mark bit, whatever bits the cycle found
\* set: the bits are the ones Heap::gc computes from the cleared page.
C19_MarkTerminates ==
    /\ [](gc_state.phase # "idle" =>
            /\ \A i \in Index : gc_state.traced[i] <= 1
            /\ Len(gc_state.stack) <= HEAP_SIZE + 1)
    /\ [](gc_state.phase = "marked" =>
            /\ \A i \in Index :
                   /\ storage.mark_bits[i] =
                          (address(i) \in Reachable(storage, DOMAIN pins))
                   /\ gc_state.traced[i] =
                          IF address(i) \in Reachable(storage, DOMAIN pins)
                          THEN 1 ELSE 0
            /\ storage.mark_bits =
                   mark_pins([S |-> [storage EXCEPT
                                        !.mark_bits = [i \in Index |-> FALSE]],
                              ub |-> FALSE],
                             DOMAIN pins).S.mark_bits
            /\ ~ub)
    /\ <>(gc_state.phase = "marked")

\* The mark phase is over on a page where the first cell points to itself and
\* to the second, the second points back to the first, both are pinned, and
\* both were walked once.
C19_Witness ==
    /\ gc_state.phase = "marked"
    /\ storage.objects[0] = PairStorage(PairPtr(address(0)), PairPtr(address(1)))
    /\ storage.objects[1].head = PairPtr(address(0))
    /\ DOMAIN pins = {address(0), address(1)}
    /\ \A i \in Index : gc_state.traced[i] = 1

\* The count the pin table records for p: a missing entry counts zero.
PinCount(pinned, p) == IF p \in DOMAIN pinned THEN pinned[p] ELSE 0

\* C23: between operations the count the pin table records for a cell
\* address is the number of live PinnedRef handles to it; every pinned
\* address is a cell of the page whose allocated bit is set and which is not
\* on the freelist; the assertion of unpin holds for the drop of every live
\* handle, and it has failed in no operation so far.
C23_PinsAreHandles ==
    /\ \A p \in Addr : PinCount(pins, p) = handles[p]
    /\ \A p \in DOMAIN pins :
           /\ p \in Addr
           /\ storage.is_some
           /\ storage.allocated_bits[allocation_index(p)]
           /\ TimesOnFreeList(storage, p) = 0
    /\ \A p \in Addr : handles[p] >= 1 => unpin_ok(pins, p)
    /\ panic # "assertion failed"

\* After a clone or a getter one cell has two handles and the other, which
\* the first points to, has one.
C23_Witness ==
    /\ heap_state = "live"
    /\ last.name = "ref"
    /\ \E p, q \in Addr :
           /\ handles[p] = 2
           /\ handles[q] = 1
           /\ PinCount(pins, p) = 2
           /\ PinCount(pins, q) = 1
           /\ storage.objects[allocation_index(p)].head = PairPtr(q)

\* C24: when alloc runs a GC cycle, every cell that a handle in the fields
\* argument refers to (the cells that lose a handle in the call) is marked
\* and kept by that cycle, also when that handle was its only root: after the
\* alloc it is allocated, off the freelist, not the cell returned, not
\* destroyed, and holds the fields it held; the Pair values written into the
\* new cell refer to such cells only.
C24_FieldsSurviveAllocGc ==
    [][ (last'.name = "alloc" /\ last'.gc.ran) =>
            /\ \A q \in Addr :
                   (handles'[q] - (IF q = last'.ret THEN 1 ELSE 0) < handles[q]) =>
                       /\ last'.gc.after.storage.mark_bits[allocation_index(q)]
                       /\ last'.gc.after.storage.allocated_bits[allocation_index(q)]
                       /\ storage'.allocated_bits[allocation_index(q)]
                       /\ TimesOnFreeList(storage', q) = 0
                       /\ q # last'.ret
                       /\ undropped'[allocation_index(q)] = undropped[allocation_index(q)]
                       /\ storage'.objects[allocation_index(q)] =
                              storage.objects[allocation_index(q)]
            /\ last'.ret # NULL =>
                   LET cell == storage'.objects[allocation_index(last'.ret)]
                   IN \A v \in {cell.head, cell.tail} :
                          v.tag = "Pair" =>
                              /\ v.val # last'.ret
                              /\ handles'[v.val] < handles[v.val]
                              /\ storage'.allocated_bits[allocation_index(v.val)]
                              /\ IsValue(storage'.objects[allocation_index(v.val)].head)
                              /\ IsValue(storage'.objects[allocation_index(v.val)].tail)
      ]_vars

\* alloc ran a GC cycle whose only pin was that of the handle moved in with
\* the fields; the cycle freed the other cell, which alloc returned, and the
\* new cell points to the cell the fields named, which no handle pins any
\* more.
C24_Witness ==
    /\ heap_state = "live"
    /\ last.name = "alloc"
    /\ last.gc.ran
    /\ last.ret # NULL
    /\ \E q \in Addr :
           /\ q # last.ret
           /\ DOMAIN last.gc.before.pins = {q}
           /\ last.gc.before.pins[q] = 1
           /\ handles[q] = 0
           /\ q \notin DOMAIN pins
           /\ storage.objects[allocation_index(last.ret)].head = PairPtr(q)
           /\ storage.allocated_bits[allocation_index(q)]

\* The heap a GC cycle left, as the next cycle finds it.
AfterGc == [storage |-> last.gc.after.storage,
            undropped |-> last.gc.after.undropped,
            ub |-> ub]

\* C25: a GC cycle run on the heap a GC cycle has just left, with the same
\* pin table, changes nothing: the page (allocated bits, mark bits, freelist,
\* the fields of every cell) and the destructor counts are those the first
\* cycle left, so the second cycle frees no cell; and a force_gc that follows
\* a force_gc leaves every part of the session state as it was.
C25_GcTwice ==
    /\ last.gc.ran =>
           LET again == gc(AfterGc, last.gc.before.pins)
           IN /\ again.storage = AfterGc.storage
              /\ again.undropped = AfterGc.undropped
              /\ again.ub = AfterGc.ub
    /\ (last.name = "force_gc" /\ heap_state = "live") =>
           LET again == gc(World, pins)
           IN /\ again = World
              /\ storage.is_some =>
                     /\ Allocated(again.storage) = Allocated(storage)
                     /\ FreeList(again.storage) = FreeList(storage)

\* A force_gc has just freed a cell and kept another, which is pinned and
\* points to itself.
C25_Witness ==
    /\ heap_state = "live"
    /\ last.name = "force_gc"
    /\ last.gc.ran
    /\ \E p, q \in Addr :
           /\ p \in DOMAIN pins
           /\ storage.allocated_bits[allocation_index(p)]
           /\ storage.objects[allocation_index(p)].head = PairPtr(p)
           /\ last.gc.before.storage.allocated_bits[allocation_index(q)]
           /\ ~storage.allocated_bits[allocation_index(q)]

\* C22: when the evaluation of a form fails with an error after a define or
\* a set! of that evaluation has completed, the binding the define made and
\* the value the set! stored are seen afterwards through the environment the
\* caller holds. The forms are (eq? (define x n) y) and (eq? (set! x n) y)
\* with y unbound: the first argument completes, then y is looked up.
C22_NoRollbackOnError ==
    ( /\ vm_last.form.name \in {"arg_define", "arg_set"}
      /\ vm_last.res = "Err"
      /\ \E i \in 1 .. Len(vm_last.evaluated) :
             vm_last.evaluated[i].expr = Symbol("y") )
    => LET g == get(Session(cells), env, vm_last.form.sym)
       IN g.res = "Ok" /\ g.val = Value_Int(vm_last.form.k)

\* C26: a (begin ...) form that evaluates returns the environment it was
\* given: the caller's environment is the same value, with the same ribs in
\* the same cells, every name yields what it did before, and no cell that
\* existed is written. Inside the begin a define is seen by the forms after
\* it: (begin (define x 1) (set! x 2) x) yields 2 also when the caller binds
\* no x, and the rib it made for x is no rib of the caller's environment.
C26_BeginKeepsEnv ==
    [][ (vm_last'.form.name \in {"begin", "tail_loop"} /\ vm_last'.res = "Ok") =>
            /\ env' = env
            /\ Ribs(Session(cells'), env') = Ribs(Session(cells), env)
            /\ \A p \in 1 .. Len(cells) : cells'[p] = cells[p]
            /\ \A name \in AllNames :
                   get(Session(cells'), env', name) = get(Session(cells), env, name)
            /\ vm_last'.form.name = "begin" =>
                   /\ vm_last'.val = Value_Int(2)
                   /\ \E p \in (Len(cells) + 1) .. Len(cells') :
                          /\ cells'[p] = [car |-> Symbol("x"), cdr |-> Value_Int(2)]
                          /\ \A i \in 1 .. Len(Ribs(Session(cells'), env')) :
                                 Ribs(Session(cells'), env')[i] # p
            /\ vm_last'.form.name = "tail_loop" =>
                   /\ vm_last'.val = Symbol("done")
                   /\ \E p \in (Len(cells) + 1) .. Len(cells') :
                          /\ cells'[p].car = Symbol("iter")
                          /\ cells'[p].cdr.tag = "Lambda"
      ]_vars

\* (begin (define x 1) (set! x 2) x) has yielded 2 in an environment that
\* binds no x, before and after.
C26_Witness ==
    /\ vm_last.form.name = "begin"
    /\ vm_last.res = "Ok"
    /\ vm_last.val = Value_Int(2)
    /\ Innermost(Session(cells), env, "x") = 0
    /\ \E p \in 1 .. Len(cells) :
           cells[p] = [car |-> Symbol("x"), cdr |-> Value_Int(2)]

\* C21: for a page whose base address is a multiple of HEAP_STORAGE_ALIGN and
\* whose size is at most HEAP_STORAGE_ALIGN, masking the address of any cell
\* i with !(HEAP_STORAGE_ALIGN - 1) gives the base of the page, and
\* allocation_index of that address passes its range and round-trip
\* assertions and is i. HeapStorage::new lets only such pages through, so
\* for every address derived on a page it built the header found is the
\* page, the assertions held, and the index leads back to the address.
C21_AddressRoundTrip ==
    /\ (page.base % page.align = 0 /\ PageSize <= page.align) =>
           \A i \in Index :
               LET ptr == cell_address(page.base, i)
               IN /\ find_header(ptr, page.align) = page.base
                  /\ allocation_index_ok(ptr - page.base)
                  /\ allocation_index(ptr - page.base) = i
    /\ page.state = "new" =>
           /\ page.base % page.align = 0
           /\ PageSize <= page.align
    /\ page.ptr # NULL =>
           /\ page.header = page.base
           /\ page.ok
           /\ page.index \in Index
           /\ cell_address(page.base, page.index) = page.ptr

\* The header and index of the last cell of a page were derived; the page
\* does not lie at address 0 and fills its alignment block to the last unit.
C21_Witness ==
    /\ page.state = "new"
    /\ page.base > 0
    /\ PageSize = page.align
    /\ page.ptr = cell_address(page.base, HEAP_SIZE - 1)
    /\ page.index = HEAP_SIZE - 1
    /\ page.header = page.base

====
